---- MODULE Spec2Model ----
(***************************************************************************)
(* A model of fn_helper/spotify_util.py: the credential life cycle of      *)
(* SpotifyAuthClient (load, authorization-code flow through the local      *)
(* Flask listener, refresh, persist) and the paginated access layer of     *)
(* SpotifyClient.                                                          *)
(***************************************************************************)
EXTENDS Integers, Sequences, FiniteSets, TLC

VARIABLES
    store,              \* the shelve file oauth2_token.db as it is on disk
    token,              \* self.token: the open shelf (writeback cache)
    access_token,       \* self.access_token, what get_auth_header() formats
    session_id,         \* auth_session.session_id (uuid4().hex)
    now,                \* datetime.now()
    pc,                 \* where SpotifyAuthClient.__init__ stands
    raised,             \* the exception __init__ ended with ("" for none)
    listener,           \* the Flask development server of _run_oauth_client
    shutdown_available, \* whether request.environ holds werkzeug.server.shutdown
    callbacks,          \* the /callback requests accepted, with their outcome
    posts,              \* the POSTs sent to URLS['token'], in order
    token_response,     \* the last 2xx answer _handle_token_response took in
    url,                \* paginate_through: the local url
    params,             \* paginate_through: the local params
    results,            \* paginate_through: the local results
    pages,              \* the provider's listing: the chain of pages
    gets,               \* the GETs sent by spotify_session.get, in order
    received,           \* how many of their responses have come back
    ppc,                \* where the call on SpotifyClient stands
    returned,           \* what paginate_through returned to its caller
    call,               \* the method called on SpotifyClient, with its arguments
    sent,               \* the POSTs and PUTs sent by spotify_session, in order
    api_error,          \* the exception the call ended with
    retval,             \* <<v>> once get_playlist_id or update_playlist_tracks
                        \* returned v
    answers             \* the provider's answers to the POSTs and PUTs, in order

authVars == <<store, token, access_token, session_id, now, pc, raised, listener,
              shutdown_available, callbacks, posts, token_response>>
apiVars == <<url, params, results, pages, gets, received, ppc, returned, call,
             sent, api_error, retval, answers>>
vars == <<authVars, apiVars>>

(* ------------------------------ bounds -------------------------------- *)

MaxTime == 3         \* the clock stops ticking here
MaxExpiresIn == 2    \* expires_in of a token response is 1..MaxExpiresIn
MaxCallbacks == 2    \* /callback requests the listener is sent in one flow
MaxPages == 3        \* pages of the provider's listing
MaxPerPage == 2      \* items on one page
MaxTracks == 5       \* track uris in one call of add_tracks_to_playlist
MaxChunk == 2        \* the provider's maximum of uris in one POST
StartTime == 2       \* the clock when the process starts

(* ------------------------------ values -------------------------------- *)

\* Python's None, and the default of dict.get for a key that is absent.
None == 0

\* The opaque strings the provider issues as access and refresh tokens.
Tokens == {1, 2}
\* uuid4().hex (line 195): an opaque string.
uuid4 == 1
\* The state parameter of a request to /callback: none, the session id, or
\* another string.
StateParams == {None, uuid4, 2}
\* The scope string of a token response, as its words between single spaces.
ScopeWires == {<<"read", "read">>, <<"read", "write">>}
\* The query string of a request to /callback: request.args.get(...) of each.
\* It holds an error (the provider's redirect after a refusal, with the state it
\* was given) or a code (with any state).
CallbackArgs ==
    {[error |-> 1, code |-> None, state |-> uuid4]} \cup
    [error : {None}, code : {1}, state : StateParams]

\* 'scope'.split(' ') made a set (line 108).
SplitScope(wire) == {wire[i] : i \in 1..Len(wire)}

\* The shelf before anything was stored in it.
EmptyToken ==
    [access_token |-> None, refresh_token |-> None, scope |-> {}, expiry |-> None]

\* The token endpoint's answers to one POST. status "exception" is session.post
\* raising (no response); "error" is a response whose ok is False.
RequiredFields == {"access_token", "scope", "expires_in"}
TokenFields == RequiredFields \cup {"refresh_token"}

ErrorResponse ==
    [status |-> "error", fields |-> {}, access_token |-> None, scope |-> <<>>,
     refresh_token |-> None, expires_in |-> 0]

\* No answer taken in yet.
NoResponse ==
    [status |-> "none", fields |-> {}, access_token |-> None, scope |-> <<>>,
     refresh_token |-> None, expires_in |-> 0]

TransportFailure ==
    [status |-> "exception", fields |-> {}, access_token |-> None, scope |-> <<>>,
     refresh_token |-> None, expires_in |-> 0]

OkResponse(fields, at, sc, rt, ei) ==
    [status |-> "ok", fields |-> fields,
     access_token |-> IF "access_token" \in fields THEN at ELSE None,
     scope |-> IF "scope" \in fields THEN sc ELSE <<>>,
     refresh_token |-> IF "refresh_token" \in fields THEN rt ELSE None,
     expires_in |-> IF "expires_in" \in fields THEN ei ELSE 0]

\* What the provider documents: a 2xx body carries access_token, scope and
\* expires_in, and may carry refresh_token.
TokenResponses ==
    {ErrorResponse, TransportFailure} \cup
    {OkResponse(f, at, sc, rt, ei) :
        f \in {RequiredFields, TokenFields}, at \in Tokens, sc \in ScopeWires,
        rt \in Tokens, ei \in 1..MaxExpiresIn}

\* What a provider may send at all: a 2xx body may lack any of the fields.
LaxTokenResponses ==
    TokenResponses \cup
    {OkResponse(f, at, sc, rt, ei) :
        f \in SUBSET TokenFields, at \in Tokens, sc \in ScopeWires,
        rt \in Tokens, ei \in 1..MaxExpiresIn}

(* ----------------------- SpotifyAuthClient ---------------------------- *)

\* Mutant: the expiry is stored as the lifetime, not as a point in time.
handle_token_response_relative(tok, resp, t) ==
    IF resp.status # "ok" THEN [token |-> tok, raised |-> "ValueError"]
    ELSE [token |-> [access_token |-> resp.access_token,
                     scope |-> SplitScope(resp.scope),
                     refresh_token |-> IF "refresh_token" \in resp.fields
                                       THEN resp.refresh_token
                                       ELSE tok.refresh_token,
                     expiry |-> resp.expires_in],
          raised |-> ""]

\* Mutant: refresh_token is taken from the response whether it is there or not.
handle_token_response_overwrite(tok, resp, t) ==
    IF resp.status # "ok" THEN [token |-> tok, raised |-> "ValueError"]
    ELSE [token |-> [access_token |-> resp.access_token,
                     scope |-> SplitScope(resp.scope),
                     refresh_token |-> resp.refresh_token,
                     expiry |-> t + resp.expires_in],
          raised |-> ""]

\* _handle_token_response (lines 99-112) on the shelf tok at time t: the shelf
\* afterwards and the exception raised ("" for none). Every assignment before
\* the raising line has been made.
_handle_token_response(tok, resp, t) ==
    IF resp.status # "ok" THEN [token |-> tok, raised |-> "ValueError"]
    ELSE IF "access_token" \notin resp.fields
    THEN [token |-> tok, raised |-> "KeyError"]
    ELSE LET t1 == [tok EXCEPT !.access_token = resp.access_token] IN
    IF "scope" \notin resp.fields THEN [token |-> t1, raised |-> "KeyError"]
    ELSE LET t2 == [t1 EXCEPT !.scope = SplitScope(resp.scope)]
             t3 == IF "refresh_token" \in resp.fields
                   THEN [t2 EXCEPT !.refresh_token = resp.refresh_token]
                   ELSE t2
         IN
    IF "expires_in" \notin resp.fields THEN [token |-> t3, raised |-> "KeyError"]
    ELSE [token |-> [t3 EXCEPT !.expiry = t + resp.expires_in], raised |-> ""]

\* Mutant: a token about to expire is refreshed too.
Branch_margin(tok, t) ==
    IF tok.access_token = None THEN "auth_flow"
    ELSE IF tok.expiry = None THEN "TypeError"
    ELSE IF tok.expiry <= t + 1 THEN "refresh"
    ELSE "valid"

\* Mutant: without a refresh token the user is sent through the
\* authorization-code flow again.
Branch_fallback(tok, t) ==
    IF tok.access_token = None THEN "auth_flow"
    ELSE IF tok.expiry = None THEN "TypeError"
    ELSE IF tok.expiry <= t
    THEN IF tok.refresh_token = None THEN "auth_flow" ELSE "refresh"
    ELSE "valid"

\* The branch __init__ takes on the shelf it opened (lines 196-199).
Branch(tok, t) ==
    IF tok.access_token = None THEN "auth_flow"
    ELSE IF tok.expiry = None THEN "TypeError"
    ELSE IF tok.expiry <= t THEN "refresh"
    ELSE "valid"

\* get_auth_header (lines 186-189): the bearer token of the header.
get_auth_header == access_token

\* Mutant: the shelf is closed without being flushed.
sync_skipped(tok, onDisk) == onDisk

\* shelve's sync (line 202): what is on disk once the shelf tok is flushed over
\* the file onDisk.
sync(tok, onDisk) == tok

\* The records an earlier run of this program leaves in oauth2_token.db.
StoredRecords ==
    {EmptyToken} \cup
    [access_token : Tokens, refresh_token : {None} \cup Tokens,
     scope : {SplitScope(w) : w \in ScopeWires}, expiry : 1..MaxTime]

\* The body of the POST of _refresh_access_token (lines 167-170).
RefreshBody(tok) ==
    [grant_type |-> "refresh_token", refresh_token |-> tok.refresh_token,
     code |-> None]

\* The body of the POST of callback (lines 146-150).
CodeBody(args) ==
    [grant_type |-> "authorization_code", refresh_token |-> None,
     code |-> args.code]

InitApiIdle ==
    /\ url = None /\ params = {} /\ results = <<>> /\ pages = <<>>
    /\ gets = <<>> /\ received = 0 /\ ppc = "idle" /\ returned = <<>>
    /\ call = [op |-> "none"] /\ sent = <<>> /\ api_error = [type |-> ""]
    /\ retval = <<>> /\ answers = <<>>

InitAuth ==
    /\ store \in StoredRecords
    /\ token = EmptyToken
    /\ access_token = None
    /\ session_id = None
    /\ now = StartTime
    /\ pc = "new"
    /\ raised = ""
    /\ listener = "none"
    /\ shutdown_available \in BOOLEAN
    /\ callbacks = <<>>
    /\ posts = <<>>
    /\ token_response = NoResponse
    /\ InitApiIdle

\* The finally block of __init__ (lines 201-204) after exception exc ("" when
\* the try block completed): the shelf tok is flushed, closed and deleted.
Finally(tok, exc) ==
    /\ store' = sync(tok, store)
    /\ token' = tok
    /\ raised' = exc
    /\ pc' = IF exc = "" THEN "done" ELSE "raised"

\* __init__ from its first line to its first blocking call (lines 192-199).
InitBegin ==
    /\ pc = "new"
    /\ session_id' = uuid4
    /\ LET tok == store
           b == Branch(tok, now)
       IN CASE b = "auth_flow" ->
                 \* _auth_flow, _run_oauth_client: app.run blocks (line 161)
                 /\ token' = tok
                 /\ pc' = "auth_flow"
                 /\ listener' = "running"
                 /\ UNCHANGED <<store, access_token, raised, posts>>
            [] b = "TypeError" ->
                 \* None <= datetime.now() (line 198)
                 /\ Finally(tok, "TypeError")
                 /\ UNCHANGED <<access_token, listener, posts>>
            [] b = "refresh" /\ tok.refresh_token = None ->
                 \* self.token['refresh_token'] (line 169)
                 /\ Finally(tok, "KeyError")
                 /\ UNCHANGED <<access_token, listener, posts>>
            [] b = "refresh" /\ tok.refresh_token # None ->
                 /\ token' = tok
                 /\ posts' = Append(posts, RefreshBody(tok))
                 /\ pc' = "refresh"
                 /\ UNCHANGED <<store, access_token, raised, listener>>
            [] b = "valid" ->
                 /\ access_token' = tok.access_token
                 /\ Finally(tok, "")
                 /\ UNCHANGED <<listener, posts>>
    /\ UNCHANGED <<now, shutdown_available, callbacks, token_response, apiVars>>

\* _refresh_access_token from the answer to its POST on (lines 171-174), then
\* line 200 and the finally block, the answer being one of Responses.
RefreshReturnOn(Responses) ==
    /\ pc = "refresh"
    /\ \E resp \in Responses :
         IF resp.status = "exception"
         THEN /\ Finally(token, "ConnectionError")
              /\ UNCHANGED <<access_token, token_response>>
         ELSE LET r == _handle_token_response(token, resp, now) IN
              /\ Finally(r.token, r.raised)
              /\ access_token' =
                    IF r.raised = "" THEN r.token.access_token ELSE access_token
              /\ token_response' =
                    IF resp.status = "ok" THEN resp ELSE token_response
    /\ UNCHANGED <<session_id, now, listener, shutdown_available, callbacks,
                   posts, apiVars>>

RefreshReturn == RefreshReturnOn(TokenResponses)

RefreshReturnLax == RefreshReturnOn(LaxTokenResponses)

\* The /auth route (lines 122-133): it answers with a redirect that carries
\* session.session_id as state, and assigns nothing.
authorization_code ==
    /\ listener = "running"
    /\ UNCHANGED vars

\* The /callback route up to its POST (lines 136-153). A raise in a route is
\* answered 500 by Flask and the server goes on serving.
CallbackBegin ==
    /\ listener = "running"
    /\ Len(callbacks) < MaxCallbacks
    /\ \E args \in CallbackArgs :
         IF args.error # None
         THEN /\ callbacks' = Append(callbacks,
                                [args |-> args, outcome |-> "500"])
              /\ UNCHANGED posts
         ELSE /\ callbacks' = Append(callbacks,
                                [args |-> args, outcome |-> "exchanging"])
              /\ posts' = Append(posts, CodeBody(args))
    /\ UNCHANGED <<store, token, access_token, session_id, now, pc, raised,
                   listener, shutdown_available, token_response, apiVars>>

\* The /callback route from the answer to its POST on (lines 154-159). The
\* server handles each request in a thread of its own, so the route may still
\* run when app.run has returned and __init__ has deleted self.token. The
\* answer is one of Responses.
CallbackReturnOn(Responses) ==
    \E i \in 1..Len(callbacks), resp \in Responses :
      /\ callbacks[i].outcome = "exchanging"
      /\ LET r == _handle_token_response(token, resp, now)
             exc == IF resp.status = "exception" THEN "ConnectionError"
                    ELSE IF resp.status = "error" THEN "ValueError"
                    ELSE IF pc # "auth_flow" THEN "AttributeError"
                    ELSE IF r.raised # "" THEN r.raised
                    ELSE IF ~shutdown_available THEN "RuntimeError"
                    ELSE "ok"
         IN /\ callbacks' = [callbacks EXCEPT
                                ![i].outcome = IF exc = "ok" THEN "200" ELSE "500"]
            /\ token' = IF pc = "auth_flow" /\ resp.status = "ok"
                        THEN r.token ELSE token
            /\ token_response' = IF pc = "auth_flow" /\ resp.status = "ok"
                                 THEN resp ELSE token_response
            /\ listener' = IF exc = "ok" THEN "stopped" ELSE listener
      /\ UNCHANGED <<store, access_token, session_id, now, pc, raised,
                     shutdown_available, posts, apiVars>>

CallbackReturn == CallbackReturnOn(TokenResponses)

CallbackReturnLax == CallbackReturnOn(LaxTokenResponses)

\* app.run returns once the server was shut down (line 161); then line 200
\* and the finally block.
InitReturn ==
    /\ pc = "auth_flow"
    /\ listener = "stopped"
    /\ access_token' = token.access_token
    /\ Finally(token, "")
    /\ UNCHANGED <<session_id, now, listener, shutdown_available, callbacks,
                   posts, token_response, apiVars>>

\* Time passes while __init__ runs.
Tick ==
    /\ pc \in {"new", "auth_flow", "refresh"}
    /\ now < MaxTime
    /\ now' = now + 1
    /\ UNCHANGED <<store, token, access_token, session_id, pc, raised, listener,
                   shutdown_available, callbacks, posts, token_response,
                   apiVars>>

NextAuth ==
    \/ InitBegin
    \/ RefreshReturn
    \/ authorization_code
    \/ CallbackBegin
    \/ CallbackReturn
    \/ InitReturn
    \/ Tick

Spec == InitAuth /\ [][NextAuth]_vars

\* The construction against a provider whose 2xx bodies may lack fields.
NextLax ==
    \/ InitBegin
    \/ RefreshReturnLax
    \/ authorization_code
    \/ CallbackBegin
    \/ CallbackReturnLax
    \/ InitReturn
    \/ Tick

SpecLax == InitAuth /\ [][NextLax]_vars

(* -------------------------- SpotifyClient ----------------------------- *)

\* All sequences over S of length at most n.
SeqUpTo(S, n) == UNION {[1..k -> S] : k \in 0..n}

\* The items of a listing (playlists, tracks), opaque to paginate_through.
Items == {"a", "b"}

\* One page as the provider holds it. A page that is not "ok" is answered with
\* a non-2xx status: "error" with a JSON error body, "error_text" with a body
\* that is not JSON.
Pages ==
    [kind : {"ok"}, items : SeqUpTo(Items, MaxPerPage)] \cup
    [kind : {"error", "error_text"}, items : {<<>>}]

\* The listings: a finite chain of pages, the url of page i being i, each page
\* but the last carrying the url of the next one as 'next'.
Listings == UNION {[1..k -> Pages] : k \in 1..MaxPages}

\* The provider's answer to GET u on the listing chain.
Response(chain, u) ==
    [ok |-> chain[u].kind = "ok",
     parseable |-> chain[u].kind # "error_text",
     status_code |-> IF chain[u].kind = "ok" THEN 200 ELSE 500,
     body |-> IF chain[u].kind = "ok" THEN "page" ELSE "error",
     items |-> chain[u].items,
     next |-> IF u < Len(chain) THEN u + 1 ELSE None]

\* get_url('playlists') / get_url('tracks', ...) (lines 25-28): the start url
\* is the url of the first page.
get_url == 1

\* The params of the callers: all_playlists passes none (line 248),
\* all_tracks_in_playlist passes offset and limit (lines 251-253).
CallerParams ==
    {[given |-> FALSE, params |-> {}],
     [given |-> TRUE, params |-> {<<"offset", 0>>, <<"limit", 100>>}]}

\* No exception.
NoError == [type |-> ""]

\* The exception of resp.json() on a body that is not JSON (line 213): it
\* holds the text it could not decode.
JSONDecodeError(resp) == [type |-> "JSONDecodeError", doc |-> resp.body]

\* ValueError(str(result)) (line 215): it holds the parsed body as its message.
ValueError(resp) == [type |-> "ValueError", message |-> resp.body]

\* Mutant: the status of the response is not looked at.
handle_request_unchecked(resp) ==
    IF ~resp.parseable
    THEN [raised |-> "JSONDecodeError", error |-> JSONDecodeError(resp),
          result |-> resp]
    ELSE [raised |-> "", error |-> NoError, result |-> resp]

\* handle_request (lines 208-216) on response resp: the exception raised ("" for
\* none) and the result returned. resp.json() is called before resp.ok is read.
handle_request(resp) ==
    IF ~resp.parseable
    THEN [raised |-> "JSONDecodeError", error |-> JSONDecodeError(resp),
          result |-> resp]
    ELSE IF ~resp.ok
    THEN [raised |-> "ValueError", error |-> ValueError(resp), result |-> resp]
    ELSE [raised |-> "", error |-> NoError, result |-> resp]

\* The params paginate_through works with (lines 222-223).
DefaultParams(p) == IF p.given THEN p.params ELSE {<<"limit", 50>>}

\* The params of the GET of an iteration of the loop (line 226); first tells
\* the first iteration from the later ones.
RequestParams(p, first) == p

\* Mutant: a page is put in front of what was collected.
extend_front(rs, items) == items \o rs

\* results.extend(resp['items']) (line 227).
extend(rs, items) == rs \o items

\* url = resp.get('next') (line 228).
NextUrl(result) == result.next

InitAuthDone ==
    /\ store = [access_token |-> 1, refresh_token |-> 1,
                scope |-> {"read"}, expiry |-> MaxTime]
    /\ token = store
    /\ access_token = 1
    /\ session_id = uuid4
    /\ now = StartTime
    /\ pc = "done"
    /\ raised = ""
    /\ listener = "none"
    /\ shutdown_available = TRUE
    /\ callbacks = <<>>
    /\ posts = <<>>
    /\ token_response = NoResponse

\* The client before a call: nothing sent, nothing returned.
ClientIdle ==
    /\ url = None /\ params = {} /\ results = <<>>
    /\ gets = <<>> /\ received = 0 /\ ppc = "idle" /\ returned = <<>>
    /\ sent = <<>> /\ api_error = NoError /\ retval = <<>> /\ answers = <<>>

InitApi ==
    /\ InitAuthDone
    /\ pages \in Listings
    /\ call = [op |-> "paginate_through"]
    /\ ClientIdle

\* paginate_through from its first line to its first GET (lines 221-226).
PaginateBegin ==
    /\ ppc = "idle"
    /\ call.op = "paginate_through"
    /\ \E p \in CallerParams :
         /\ params' = DefaultParams(p)
         /\ gets' = Append(gets, [url |-> get_url,
                                  params |-> RequestParams(DefaultParams(p), TRUE)])
    /\ url' = get_url
    /\ results' = <<>>
    /\ ppc' = "waiting"
    /\ UNCHANGED <<pages, received, returned, call, sent, api_error, retval,
                   answers, authVars>>

(* ------------- add_tracks_to_playlist, update_playlist_tracks ---------- *)

\* The track uris a caller passes.
TrackUris == {"t1", "t2"}

\* The playlist id a caller passes.
PlaylistIds == {"p1"}

\* The keyword arguments of update_playlist_tracks (line 262).
UpdateData == {[uris |-> <<"t1", "t2">>], [range_start |-> 0, insert_before |-> 2]}

\* The provider's answers to a POST or a PUT: 2xx with a JSON body, or a
\* non-2xx status whose body is JSON or is not.
WriteResponses ==
    {[ok |-> TRUE, parseable |-> TRUE, status_code |-> 201, body |-> "snapshot"]}
    \cup [ok : {FALSE}, parseable : BOOLEAN, status_code : {403, 500},
          body : {"error"}]

Min(a, b) == IF a < b THEN a ELSE b

\* chunk_gen(tracks) (line 258): the successive chunks of at most MaxChunk
\* uris, in the order of tracks.
chunk_gen(tracks) ==
    [i \in 1..((Len(tracks) + MaxChunk - 1) \div MaxChunk) |->
        SubSeq(tracks, (i - 1) * MaxChunk + 1, Min(i * MaxChunk, Len(tracks)))]

\* Mutant: every POST carries an empty list of uris.
post_json_empty(chunk) == [uris |-> <<>>]

\* json={'uris': chunk} (line 260).
post_json(chunk) == [uris |-> chunk]

\* The POST of a chunk (lines 259-260).
ChunkPost(chunk) ==
    [method |-> "POST", url |-> <<"tracks", call.playlist_id>>,
     json |-> post_json(chunk)]

\* Mutant: the loop goes on to the next chunk after a failure.
next_chunk_continue(r, k, n) == IF k < n THEN k + 1 ELSE None

\* Mutant: the first chunk is sent once more when its POST failed.
next_chunk_retry(r, k, n) ==
    IF r.raised # "" THEN (IF k = 1 THEN 1 ELSE None)
    ELSE IF k < n THEN k + 1 ELSE None

\* The for loop of add_tracks_to_playlist (lines 258-260) after the k-th POST
\* of n chunks was handled with r: the chunk it POSTs next, None when it POSTs
\* no more. The exception of handle_request leaves the loop.
next_chunk(r, k, n) ==
    IF r.raised # "" THEN None
    ELSE IF k < n THEN k + 1 ELSE None

\* add_tracks_to_playlist from its first line to its first POST, or to its
\* return when there is no chunk (lines 258-260).
AddTracksBegin ==
    /\ ppc = "idle"
    /\ call.op = "add_tracks_to_playlist"
    /\ LET chunks == chunk_gen(call.tracks) IN
       IF chunks = <<>>
       THEN /\ ppc' = "returned"
            /\ UNCHANGED sent
       ELSE /\ ppc' = "waiting"
            /\ sent' = Append(sent, ChunkPost(chunks[1]))
    /\ UNCHANGED <<url, params, results, pages, gets, received, returned, call,
                   api_error, retval, answers, authVars>>

\* add_tracks_to_playlist from the answer to a POST to the next POST, or to
\* its return or raise (lines 258-260).
AddTracksStep ==
    /\ ppc = "waiting"
    /\ call.op = "add_tracks_to_playlist"
    /\ \E resp \in WriteResponses :
         LET r == handle_request(resp)
             chunks == chunk_gen(call.tracks)
             nx == next_chunk(r, Len(sent), Len(chunks))
         IN /\ answers' = Append(answers, resp)
            /\ received' = received + 1
            /\ api_error' = r.error
            /\ sent' = IF nx # None THEN Append(sent, ChunkPost(chunks[nx]))
                       ELSE sent
            /\ ppc' = IF r.raised # "" THEN "raised"
                      ELSE IF nx # None THEN "waiting" ELSE "returned"
    /\ UNCHANGED <<url, params, results, pages, gets, returned, call, retval,
                   authVars>>

\* update_playlist_tracks from its first line to its PUT (lines 264-265).
UpdateBegin ==
    /\ ppc = "idle"
    /\ call.op = "update_playlist_tracks"
    /\ sent' = Append(sent, [method |-> "PUT",
                             url |-> <<"tracks", call.playlist_id>>,
                             json |-> call.data])
    /\ ppc' = "waiting"
    /\ UNCHANGED <<url, params, results, pages, gets, received, returned, call,
                   api_error, retval, answers, authVars>>

\* update_playlist_tracks from the answer to its PUT to its return or raise
\* (lines 264-265).
UpdateReturn ==
    /\ ppc = "waiting"
    /\ call.op = "update_playlist_tracks"
    /\ \E resp \in WriteResponses :
         LET r == handle_request(resp) IN
            /\ answers' = Append(answers, resp)
            /\ received' = received + 1
            /\ api_error' = r.error
            /\ IF r.raised # ""
               THEN ppc' = "raised" /\ UNCHANGED retval
               ELSE ppc' = "returned" /\ retval' = <<r.result.body>>
    /\ UNCHANGED <<url, params, results, pages, gets, returned, call, sent,
                   authVars>>

(* --------------------------- get_playlist_id -------------------------- *)

\* Strings are sequences of symbols; "a" and "A" differ in case only.
UriPrefix == <<"spotify", ":", "playlist", ":">>

\* The names and ids of the playlists of the provider.
PlaylistNames == {<<"a", "b">>, <<"A", "b">>}
ListedIds == {<<>>, <<"x">>, <<"y">>}

\* A playlist as the listing holds it; its id may be empty or missing.
Playlists == [name : PlaylistNames, id : ListedIds] \cup [name : PlaylistNames]

\* The pages of the listing of playlists.
PlaylistPages ==
    [kind : {"ok"}, items : {<<pl>> : pl \in Playlists}] \cup
    [kind : {"error"}, items : {<<>>}]

PlaylistListings == UNION {[1..k -> PlaylistPages] : k \in 1..MaxPages}

\* What a caller passes as playlist: a name, a part of a name, or a uri.
Identifiers ==
    {<<"a">>, <<"b">>, <<"A", "b">>, <<"c">>,
     UriPrefix \o <<"x">>, UriPrefix \o <<"z">>, UriPrefix}

\* is_uri(playlist) (line 235): playlist has the form spotify:playlist:<id>
\* with an id that is not empty.
is_uri(str) ==
    /\ Len(str) > Len(UriPrefix)
    /\ SubSeq(str, 1, Len(UriPrefix)) = UriPrefix
    /\ \A i \in (Len(UriPrefix) + 1)..Len(str) : str[i] # ":"

\* id_from_uri(playlist) (line 236): what follows the last colon.
id_from_uri(str) == SubSeq(str, Len(UriPrefix) + 1, Len(str))

\* playlist in p['name'] (line 240): str is a part of name, case by case.
contains(name, str) ==
    \E i \in 0..(Len(name) - Len(str)) : SubSeq(name, i + 1, i + Len(str)) = str

\* Mutant: the last playlist that matches is taken.
matched_last(playlist, all_playlists) ==
    LET hits == {i \in DOMAIN all_playlists :
                    contains(all_playlists[i].name, playlist)}
    IN IF hits = {} THEN <<>>
       ELSE all_playlists[CHOOSE i \in hits : \A j \in hits : j <= i]

\* next(filter(lambda p: playlist in p['name'], all_playlists), {}) (lines
\* 239-240): the first playlist that matches, the empty dict when none does.
matched(playlist, all_playlists) ==
    LET hits == {i \in DOMAIN all_playlists :
                    contains(all_playlists[i].name, playlist)}
    IN IF hits = {} THEN <<>>
       ELSE all_playlists[CHOOSE i \in hits : \A j \in hits : i <= j]

\* d.get('id') (line 241): <<v>> for the value v, <<>> for None.
get_id(d) == IF "id" \in DOMAIN d THEN <<d.id>> ELSE <<>>

\* not playlist_id (line 243): None or the empty string.
Falsy(v) == v = <<>> \/ v[1] = <<>>

\* Mutant: a uri is looked up in the listing as a name is.
lists_playlists_always(playlist) == TRUE

\* The branch of get_playlist_id that lists the playlists (lines 235-238).
lists_playlists(playlist) == ~is_uri(playlist)

\* get_playlist_id from the playlist_id it found to its return or raise
\* (lines 243-245).
GetPlaylistIdEnd(playlist_id) ==
    IF Falsy(playlist_id)
    THEN /\ ppc' = "raised"
         /\ api_error' = [type |-> "ValueError",
                          message |-> "No matching playlist found."]
         /\ UNCHANGED retval
    ELSE /\ ppc' = "returned"
         /\ retval' = playlist_id
         /\ UNCHANGED api_error

\* get_playlist_id after all_playlists() returned (lines 238-245).
GetPlaylistIdReturn(all_playlists) ==
    GetPlaylistIdEnd(get_id(matched(call.playlist, all_playlists)))

\* paginate_through returns rs to a caller that hands it on as it is
\* (all_playlists, all_tracks_in_playlist; lines 247-253).
PaginateReturn(rs) ==
    /\ ppc' = "returned"
    /\ UNCHANGED <<api_error, retval>>

\* One turn of the loop of paginate_through, from the answer to a GET to the
\* next GET, or to the raise, or to the return and what its caller does with
\* the list returned (lines 225-229, 238).
PaginateLoop ==
    /\ ppc = "waiting"
    /\ received' = received + 1
    /\ LET r == handle_request(Response(pages, url)) IN
       IF r.raised # ""
       THEN /\ ppc' = "raised"
            /\ api_error' = r.error
            /\ UNCHANGED <<url, results, gets, returned, retval>>
       ELSE LET rs == extend(results, r.result.items)
                nx == NextUrl(r.result)
            IN /\ results' = rs
               /\ url' = nx
               /\ IF nx # None
                  THEN /\ gets' = Append(gets,
                                [url |-> nx, params |-> RequestParams(params, FALSE)])
                       /\ UNCHANGED <<ppc, returned, api_error, retval>>
                  ELSE /\ returned' = rs
                       /\ IF call.op = "get_playlist_id"
                          THEN GetPlaylistIdReturn(rs)
                          ELSE PaginateReturn(rs)
                       /\ UNCHANGED gets
    /\ UNCHANGED <<params, pages, call, sent, answers, authVars>>

\* paginate_through called by itself (all_playlists, all_tracks_in_playlist).
PaginateStep ==
    /\ call.op = "paginate_through"
    /\ PaginateLoop

NextApi ==
    \/ PaginateBegin
    \/ PaginateStep

SpecApi == InitApi /\ [][NextApi]_vars

\* get_playlist_id from its first line to its return or raise for a uri, to
\* the first GET of all_playlists() otherwise (lines 235-238, 221-226).
GetPlaylistIdBegin ==
    /\ ppc = "idle"
    /\ call.op = "get_playlist_id"
    /\ IF lists_playlists(call.playlist)
       THEN LET p == DefaultParams([given |-> FALSE, params |-> {}]) IN
            /\ params' = p
            /\ gets' = Append(gets, [url |-> get_url,
                                     params |-> RequestParams(p, TRUE)])
            /\ url' = get_url
            /\ results' = <<>>
            /\ ppc' = "waiting"
            /\ UNCHANGED <<api_error, retval>>
       ELSE /\ GetPlaylistIdEnd(<<id_from_uri(call.playlist)>>)
            /\ UNCHANGED <<url, params, results, gets>>
    /\ UNCHANGED <<pages, received, returned, call, sent, answers, authVars>>

\* get_playlist_id while all_playlists() pages through the listing, to its
\* return or raise (lines 238-245, 225-229).
GetPlaylistIdStep ==
    /\ call.op = "get_playlist_id"
    /\ PaginateLoop

(* ----------------------- the calls on the client ---------------------- *)

\* A constructed client, the call made on it and what the provider holds.
InitClient ==
    /\ InitAuthDone
    /\ ClientIdle
    /\ \/ /\ call = [op |-> "paginate_through"]
          /\ pages \in Listings
       \/ /\ call \in [op : {"add_tracks_to_playlist"},
                       tracks : SeqUpTo(TrackUris, MaxTracks),
                       playlist_id : PlaylistIds]
          /\ pages = <<>>
       \/ /\ call \in [op : {"update_playlist_tracks"},
                       playlist_id : PlaylistIds, data : UpdateData]
          /\ pages = <<>>
       \/ /\ call \in [op : {"get_playlist_id"}, playlist : Identifiers]
          /\ pages \in PlaylistListings

NextClient ==
    \/ PaginateBegin
    \/ PaginateStep
    \/ AddTracksBegin
    \/ AddTracksStep
    \/ UpdateBegin
    \/ UpdateReturn
    \/ GetPlaylistIdBegin
    \/ GetPlaylistIdStep

SpecClient == InitClient /\ [][NextClient]_vars

\* Either a construction of SpotifyAuthClient or a call on a constructed client.
InitAll == InitAuth \/ InitClient

NextAll == NextAuth \/ NextClient

SpecAll == InitAll /\ [][NextAll]_vars

(* ------------------- claims on SpotifyAuthClient ---------------------- *)

\* __init__ leaves its first stage (the step of InitBegin).
Constructs == pc = "new" /\ pc' # "new"

\* C1: when the store that __init__ loads holds a non-empty access_token whose
\* expiry is strictly after the current time, construction sends no POST to
\* the token endpoint, starts no listener, leaves every field of the stored
\* record as it was, and get_auth_header() carries the stored access_token.
C1_ValidCredentialPath ==
    [][(Constructs /\ store.access_token # None /\ store.expiry # None
            /\ store.expiry > now)
        => /\ pc' = "done"
           /\ posts' = <<>>
           /\ listener' = "none"
           /\ callbacks' = <<>>
           /\ store' = store
           /\ get_auth_header' = store.access_token]_vars

C1_Witness ==
    /\ pc = "done"
    /\ posts = <<>>
    /\ listener = "none"
    /\ store.expiry > now
    /\ get_auth_header = store.access_token

\* C2: for a stored credential with an access_token, an expiry at or before
\* the current time and a refresh token, construction sends exactly one POST
\* to the token endpoint, of grant type refresh_token, never starts the
\* listener, and when that POST is answered 2xx the stored expiry afterwards
\* is strictly later than the current time.
C2_RefreshExactlyOnce ==
    /\ [][(Constructs /\ store.access_token # None /\ store.expiry # None
               /\ store.expiry <= now /\ store.refresh_token # None)
           => /\ pc' = "refresh"
              /\ Len(posts') = 1
              /\ posts'[1].grant_type = "refresh_token"
              /\ posts'[1].refresh_token = store.refresh_token
              /\ listener' = "none"]_vars
    /\ [][(pc = "refresh" /\ pc' # "refresh")
           => /\ posts' = posts
              /\ listener' = "none"
              /\ pc' \in {"done", "raised"}
              /\ (token_response'.status = "ok"
                    => pc' = "done" /\ store'.expiry > now')]_vars
    /\ [](pc \in {"done", "raised"} /\ posts # <<>>
             /\ posts[1].grant_type = "refresh_token"
           => Len(posts) = 1 /\ listener = "none" /\ callbacks = <<>>)

C2_Witness ==
    /\ pc = "done"
    /\ Len(posts) = 1
    /\ posts[1].grant_type = "refresh_token"
    /\ token_response.status = "ok"
    /\ store.expiry > now

\* C3: after a successful refresh flow the persisted refresh_token is the one
\* stored before when the token response carries no refresh_token field and
\* the response's when it carries one; and the refresh_token of the record
\* changes in no other way than by a 2xx token response that carries one.
C3_RefreshTokenRetention ==
    /\ [][(pc = "refresh" /\ pc' = "done")
           => store'.refresh_token =
                 IF "refresh_token" \in token_response'.fields
                 THEN token_response'.refresh_token
                 ELSE store.refresh_token]_vars
    /\ [][(pc # "new" /\ token'.refresh_token # token.refresh_token)
           => /\ token_response'.status = "ok"
              /\ "refresh_token" \in token_response'.fields
              /\ token'.refresh_token = token_response'.refresh_token]_vars
    /\ [][store'.refresh_token # store.refresh_token
           => store'.refresh_token = token'.refresh_token]_vars

C3_Witness ==
    /\ pc = "done"
    /\ Len(posts) = 1
    /\ posts[1].grant_type = "refresh_token"
    /\ "refresh_token" \notin token_response.fields
    /\ store.refresh_token = posts[1].refresh_token
    /\ store.access_token = token_response.access_token

\* C4: whenever construction has returned normally after an authorization-code
\* flow or a refresh flow, the record on disk is the record of the shelf and
\* holds the access_token, the scope and the expiry of one 2xx token response
\* that was received, and get_auth_header() carries the persisted access_token.
C4_PersistBeforeReturn ==
    (pc = "done" /\ posts # <<>>)
      => /\ token_response.status = "ok"
         /\ store = token
         /\ store.access_token = token_response.access_token
         /\ store.scope = SplitScope(token_response.scope)
         /\ store.expiry - token_response.expires_in \in StartTime..now
         /\ get_auth_header = store.access_token

C4_Witness ==
    /\ pc = "done"
    /\ Len(posts) = 2
    /\ posts[1].grant_type = "authorization_code"
    /\ store.access_token = token_response.access_token
    /\ store.scope = {"read", "write"}

\* C5: when the stored record has an access_token whose expiry is at or before
\* the current time and has no refresh_token, construction ends with an
\* exception, sends no POST to the token endpoint and does not start the
\* authorization-code flow.
C5_ExpiredWithoutRefreshToken ==
    [][(Constructs /\ store.access_token # None /\ store.expiry # None
            /\ store.expiry <= now /\ store.refresh_token = None)
        => /\ pc' = "raised"
           /\ raised' # ""
           /\ posts' = <<>>
           /\ listener' = "none"
           /\ callbacks' = <<>>]_vars

C5_Witness ==
    /\ pc = "raised"
    /\ raised = "KeyError"
    /\ store.access_token # None
    /\ store.refresh_token = None
    /\ store.expiry <= now
    /\ posts = <<>>
    /\ listener = "none"

\* C6: in the authorization-code flow, once a request to /callback has been
\* handled (with a code and a 2xx exchange, with an error parameter, or with
\* a failed exchange) the listener is shut down, so that the same flow serves
\* no later callback.
C6_ListenerTornDown ==
    (\E i \in 1..Len(callbacks) : callbacks[i].outcome # "exchanging")
      => listener # "running"

\* C7: a request to /callback leads to a token-exchange POST (and so to a
\* change of the credential record) only if its state parameter is the
\* session_id this flow generated and sent in the /auth redirect.
C7_StateCorrelation ==
    \A i \in 1..Len(callbacks) :
      (callbacks[i].args.error = None
         /\ \E j \in 1..Len(posts) : posts[j] = CodeBody(callbacks[i].args))
        => callbacks[i].args.state = session_id

(* --------------------- claims on SpotifyClient ------------------------ *)

\* The items of pages 1..n of a chain, in the provider's order.
RECURSIVE ItemsUpTo(_, _)
ItemsUpTo(chain, n) ==
    IF n = 0 THEN <<>> ELSE ItemsUpTo(chain, n - 1) \o chain[n].items

\* The pages the provider answers with a non-2xx status.
Failing(chain) == {i \in 1..Len(chain) : chain[i].kind # "ok"}

\* The first of them.
FirstFailing(chain) ==
    CHOOSE i \in Failing(chain) : \A j \in Failing(chain) : i <= j

\* C8: for a finite chain of k pages, each but the last carrying a next
\* cursor and each answered 2xx, paginate_through sends exactly k GETs, page
\* after page and each only after the answer to the one before has come in,
\* never raises, and returns the items of the pages in the provider's order,
\* none lost and none twice.
C8_PaginationComplete ==
    Failing(pages) = {}
      => /\ ppc # "raised"
         /\ Len(gets) <= Len(pages)
         /\ \A i \in 1..Len(gets) : gets[i].url = i
         /\ received <= Len(gets)
         /\ Len(gets) <= received + 1
         /\ ppc = "waiting" => results = ItemsUpTo(pages, received)
         /\ ppc = "returned"
              => /\ Len(gets) = Len(pages)
                 /\ received = Len(pages)
                 /\ returned = ItemsUpTo(pages, Len(pages))

C8_Witness ==
    /\ ppc = "returned"
    /\ Len(pages) = 3
    /\ Len(gets) = 3
    /\ Len(pages[1].items) = 2 /\ Len(pages[2].items) = 2
    /\ Len(pages[3].items) = 1
    /\ Len(returned) = 5

\* C9: in paginate_through only the first GET, to the start url, carries
\* query parameters; every later GET, to a next cursor url, carries none.
C9_CursorNotReparameterized ==
    \A i \in 1..Len(gets) :
      /\ i = 1 => gets[i].params # {}
      /\ i > 1 => gets[i].params = {}

\* C10: if the i-th page request of paginate_through is answered non-2xx, the
\* call ends with an exception, sends no further GET, and its caller gets
\* none of the items of pages 1..i-1 as a result.
C10_FailureAllOrNothing ==
    Failing(pages) # {}
      => LET f == FirstFailing(pages) IN
         /\ Len(gets) <= f
         /\ ppc # "returned"
         /\ returned = <<>>
         /\ received >= f => ppc = "raised" /\ Len(gets) = f
         /\ ppc = "raised" => received = f

C10_Witness ==
    /\ ppc = "raised"
    /\ Len(pages) = 3
    /\ FirstFailing(pages) = 2
    /\ pages[1].items # <<>>
    /\ Len(gets) = 2
    /\ returned = <<>>

(* ---------- claims on add_tracks_to_playlist and the failures ---------- *)

\* The uris of the first k POSTs, one list after the other.
RECURSIVE UrisUpTo(_, _)
UrisUpTo(reqs, k) ==
    IF k = 0 THEN <<>> ELSE UrisUpTo(reqs, k - 1) \o reqs[k].json.uris

\* The answers to the POSTs and PUTs that were not 2xx.
FailedAnswers == {k \in DOMAIN answers : ~answers[k].ok}

\* C11: for N track uris and the maximum chunk size C, when every POST is
\* answered 2xx, add_tracks_to_playlist sends exactly ceil(N/C) POSTs (none for
\* N = 0), one after the other, each with at most C uris, and the uri lists of
\* the POSTs, one after the other, are the input list.
C11_ChunkedPosts ==
    (call.op = "add_tracks_to_playlist" /\ FailedAnswers = {})
      => /\ ppc # "raised"
         /\ \A i \in DOMAIN sent :
              /\ sent[i].method = "POST"
              /\ Len(sent[i].json.uris) <= MaxChunk
         /\ Len(answers) <= Len(sent) /\ Len(sent) <= Len(answers) + 1
         /\ \E n \in 0..Len(call.tracks) :
              UrisUpTo(sent, Len(sent)) = SubSeq(call.tracks, 1, n)
         /\ ppc = "returned"
              => /\ Len(answers) = Len(sent)
                 /\ Len(sent) * MaxChunk >= Len(call.tracks)
                 /\ Len(sent) * MaxChunk < Len(call.tracks) + MaxChunk
                 /\ UrisUpTo(sent, Len(sent)) = call.tracks

C11_Witness ==
    /\ call.op = "add_tracks_to_playlist"
    /\ ppc = "returned"
    /\ Len(call.tracks) = 2 * MaxChunk + 1
    /\ Len(sent) = 3
    /\ Len(sent[3].json.uris) = 1
    /\ FailedAnswers = {}

\* C12: when the POST of chunk k is answered non-2xx, add_tracks_to_playlist
\* ends with an exception; no POST is sent for the chunks after k, chunk k is
\* not sent again, and nothing is sent to undo the chunks 1..k-1: what was
\* sent is the POSTs of the chunks 1..k, once each.
C12_StopsAtFirstFailure ==
    call.op = "add_tracks_to_playlist"
      => \A k \in FailedAnswers :
            /\ ppc = "raised"
            /\ Len(answers) = k
            /\ Len(sent) = k
            /\ \A i \in 1..k : sent[i] = ChunkPost(chunk_gen(call.tracks)[i])

C12_Witness ==
    /\ call.op = "add_tracks_to_playlist"
    /\ ppc = "raised"
    /\ Len(chunk_gen(call.tracks)) = 3
    /\ FailedAnswers = {2}
    /\ Len(sent) = 2

\* What an exception holds of the provider's answer: its type and the body.
BodyFields == {"type", "message", "doc"}

\* C13: when chunk k of add_tracks_to_playlist fails, the exception the caller
\* gets tells how many chunks succeeded before it: it holds the number k-1.
C13_ErrorTellsChunksDone ==
    (call.op = "add_tracks_to_playlist" /\ ppc = "raised")
      => \E f \in DOMAIN api_error \ BodyFields :
            api_error[f] = Len(answers) - 1

\* The answer the call failed on.
FailedResponse ==
    IF call.op = "paginate_through" THEN Response(pages, url)
    ELSE answers[Len(answers)]

\* C14: in paginate_through, add_tracks_to_playlist and update_playlist_tracks
\* an answer that is not 2xx ends the call with an exception that holds the
\* HTTP status code and the error body, parsed or as raw text when it is not
\* JSON; no such answer is turned into a normal return.
C14_FailureTranslation ==
    call.op \in {"paginate_through", "add_tracks_to_playlist",
                 "update_playlist_tracks"}
      => /\ FailedAnswers # {} => ppc = "raised"
         /\ (Failing(pages) # {} /\ received >= FirstFailing(pages))
              => ppc = "raised"
         /\ ppc = "raised"
              => /\ "status_code" \in DOMAIN api_error
                 /\ api_error.status_code = FailedResponse.status_code
                 /\ \E f \in DOMAIN api_error \ {"type"} :
                       api_error[f] = FailedResponse.body

(* ----------------------- claims on get_playlist_id --------------------- *)

\* The playlists of the whole listing, in the order of the listing.
AllListed == ItemsUpTo(pages, Len(pages))

\* The places in the listing of the playlists whose name has str as a part.
Hits(str) == {i \in DOMAIN AllListed : contains(AllListed[i].name, str)}

\* The playlist at place i has an id that is neither missing nor empty.
HasId(i) == "id" \in DOMAIN AllListed[i] /\ AllListed[i].id # <<>>

\* C15: for an identifier that is not a uri, get_playlist_id lists all
\* playlists through paginate_through and returns the id of the first playlist
\* in the order of the listing whose name contains the identifier as a
\* case-sensitive substring; when no playlist matches, or the id of that
\* playlist is empty or missing, it ends with an exception.
C15_FirstMatchByName ==
    (call.op = "get_playlist_id" /\ ~is_uri(call.playlist)
        /\ Failing(pages) = {})
      => /\ ppc # "idle" => gets # <<>> /\ gets[1].url = get_url
         /\ ppc \in {"returned", "raised"}
              => /\ Len(gets) = Len(pages)
                 /\ returned = AllListed
         /\ ppc = "returned"
              => \E i \in Hits(call.playlist) :
                    /\ \A j \in Hits(call.playlist) : i <= j
                    /\ HasId(i)
                    /\ retval = <<AllListed[i].id>>
         /\ ppc = "raised"
              => /\ retval = <<>>
                 /\ \A i \in Hits(call.playlist) :
                       (\A j \in Hits(call.playlist) : i <= j) => ~HasId(i)

C15_Witness ==
    /\ call.op = "get_playlist_id"
    /\ call.playlist = <<"a">>
    /\ ppc = "returned"
    /\ Len(pages) = 3
    /\ AllListed[1].name = <<"A", "b">>
    /\ Hits(call.playlist) = {2, 3}
    /\ HasId(3) /\ AllListed[3].id # AllListed[2].id
    /\ retval = <<AllListed[2].id>>

\* C16: for an identifier in the form of a uri, get_playlist_id sends no HTTP
\* request at all and returns the id the identifier carries.
C16_UriSendsNothing ==
    (call.op = "get_playlist_id" /\ is_uri(call.playlist))
      => /\ gets = <<>> /\ sent = <<>> /\ received = 0
         /\ ppc \in {"idle", "returned"}
         /\ ppc = "returned"
              => retval = <<SubSeq(call.playlist, Len(UriPrefix) + 1,
                                   Len(call.playlist))>>

C16_Witness ==
    /\ call.op = "get_playlist_id"
    /\ call.playlist = UriPrefix \o <<"z">>
    /\ ppc = "returned"
    /\ retval = <<<<"z">>>>
    /\ gets = <<>>
    /\ Len(pages) = 2

(* --------------------------- claims on both --------------------------- *)

IsRefreshPost(body) == body.grant_type = "refresh_token"

IsCodePost(body) == body.grant_type = "authorization_code"

\* The callback carries a code and no error.
CarriesCode(cb) == cb.args.error = None

\* C17: neither SpotifyAuthClient nor SpotifyClient sends a request again by
\* itself: a construction sends at most one refresh POST, a callback with a
\* code sends one authorization_code POST, every page url is requested once,
\* chunk i is POSTed once as the i-th POST, the PUT is sent once, and no
\* request follows the answer that made the call fail.
C17_NoInternalRetries ==
    /\ Len(SelectSeq(posts, IsRefreshPost)) <= 1
    /\ pc # "refresh" /\ listener = "none" /\ Len(posts) = 1
         => raised # "" \/ token_response.status = "ok"
    /\ Len(SelectSeq(posts, IsCodePost)) = Len(SelectSeq(callbacks, CarriesCode))
    /\ \A i, j \in DOMAIN gets : gets[i].url = gets[j].url => i = j
    /\ received <= Len(gets) + Len(sent)
    /\ Len(gets) + Len(sent) <= received + 1
    /\ ppc \in {"raised", "returned"} => Len(gets) + Len(sent) = received
    /\ call.op = "add_tracks_to_playlist"
         => \A i \in DOMAIN sent : sent[i] = ChunkPost(chunk_gen(call.tracks)[i])
    /\ call.op = "update_playlist_tracks" => Len(sent) <= 1

C17_Witness ==
    /\ call.op = "add_tracks_to_playlist"
    /\ ppc = "raised"
    /\ Len(chunk_gen(call.tracks)) = 3
    /\ Len(sent) = 1
    /\ ~answers[1].ok

(* -------------- claims on the record, the callbacks, the end ----------- *)

\* access_token, scope and expiry of the record rec all come from the 2xx
\* answer resp, handled at some time up to t.
FromOneResponse(rec, resp, t) ==
    /\ resp.status = "ok"
    /\ RequiredFields \subseteq resp.fields
    /\ rec.access_token = resp.access_token
    /\ rec.scope = SplitScope(resp.scope)
    /\ rec.expiry # None
    /\ rec.expiry - resp.expires_in \in StartTime..t

\* C18: every record __init__ writes to the store is either the record it
\* loaded, or has access_token, scope and expiry all from one 2xx token
\* response; an answer that is not 2xx leaves the record as it was, and a
\* record with a new access_token and the old expiry is never written, even
\* when the handling of the response fails part-way.
C18_NoHalfUpdatedRecord ==
    [][store' # store => FromOneResponse(store', token_response', now')]_vars

\* C19: however the /callback requests of one authorization-code flow arrive,
\* one after the other or at once, with a code or with an error, at most one
\* of them is handled: at most one authorization_code POST is sent and at most
\* one handler writes the record.
C19_OneCallbackPerFlow ==
    /\ Len(callbacks) <= 1
    /\ Len(SelectSeq(posts, IsCodePost)) <= 1

\* C20: a construction that found no access_token runs the listener; once a
\* /callback with a code was handled and its exchange was answered 2xx, the
\* listener is shut down and the construction returns with a valid record,
\* written to the store; such a callback never leaves the listener running
\* and the construction blocked.
C20_SuccessfulCallbackEnds ==
    (listener # "none" /\ token_response.status = "ok")
      => /\ listener = "stopped"
         /\ pc \in {"auth_flow", "done"}
         /\ pc = "done"
              => /\ raised = ""
                 /\ store.access_token # None /\ store.expiry # None
                 /\ access_token = store.access_token

====
